---------------------------- MODULE Spec2Model ----------------------------
(***************************************************************************)
(* Model of the build-dependency scheduler and the instance orchestrator   *)
(* of multi_swe_bench/harness/prebuild_envagent_images.py (class CliArgs). *)
(*                                                                         *)
(* Image full names are numbers: 1..MaxImages are images this system       *)
(* builds, the members of Externals are base images of the runtime.  An    *)
(* Image object is a record that carries the full name and the pull        *)
(* request (instance) whose chain created the object, as every instance    *)
(* constructs its own Image objects.                                       *)
(*                                                                         *)
(* Further specifications model CliArgs.dataset with its filters, the      *)
(* functions of utils/apptainer_util.py and the parse_log functions of     *)
(* three instances, each run on its own.                                   *)
(***************************************************************************)
EXTENDS Integers, Naturals, Sequences, FiniteSets, TLC

VARIABLES
    \* ---- inputs (fixed during a run) ----
    dep,                \* Image.dependency(): full name -> full name or external
    instances,          \* CliArgs.instances: sequence of [id, leaf]
    stop_on_error,      \* CliArgs.stop_on_error
    force_build,        \* CliArgs.force_build
    max_workers_build_image,
    \* ---- container runtime ----
    dockerImages,       \* image references the runtime holds
    \* ---- run_mode_image locals ----
    pc,                 \* position of the coordinating thread
    external_images,
    images,
    building_images,
    failed_images,
    futures,            \* Image object of the wave -> state of its future
    \* ---- observations ----
    wave,               \* number of the wave submitted last
    submitCount,        \* full name -> executor.submit calls
    submitWave,         \* full name -> wave of the last submit
    okWave,             \* full name -> wave in which build_image returned
    failWave,           \* full name -> wave in which build_image raised
    buildCalls,         \* full name -> docker_util.build calls
    ctxWrites,          \* full name -> build contexts written
    \* ---- instance runner: inputs ----
    max_workers_run_instance,
    patches,            \* self.patches: instance id -> fix_patch text
    prior_patch,        \* the fix_patch text an earlier pass wrote
    \* ---- instance runner: files under the instance directories ----
    fixPatch,           \* instance directory -> text of fix.patch
    reports,            \* instance directories that hold a report file
    \* ---- run_mode_instance_only locals ----
    ipc,                \* position of the coordinating thread
    ifutures,           \* index into instances -> state of its future
    failed_instances,
    \* ---- observations ----
    pass,               \* number of the pass of run_mode_instance_only
    reports0,           \* the reports at the start of the pass
    persisted,          \* instance directories whose report a pass persisted
    runtimeCalls,       \* index -> run_and_build_dockerfile calls of the pass
    ierror,             \* index -> str(e) of the exception run_instance raised
    \* ---- check_commit_hashes: inputs ----
    repo_of,            \* index into instances -> repository of the instance
    base_sha,           \* index into instances -> instance.pr.base.sha
    local_commits,      \* repository -> commit hashes of the local clone
    unresolvable,       \* ids of the instances whose dependency() raises
    \* ---- check_commit_hashes: observations ----
    commit_errors,      \* the records logger.error received
    \* ---- the program run ----
    mode,               \* CliArgs.mode
    dataset_lines,      \* ids of the records of the dataset files, in order
    fail_phase,         \* the phase at which a failing test run raises
    outcome,            \* how run() ended
    phaseLog,           \* index -> phases the run_instance call executed
    \* ---- functions run on their own ----
    selection,          \* CliArgs.dataset with specifics and skips
    sandbox,            \* apptainer_util: pull_build and run over an image_dir
    parsing             \* Instance.parse_log over a log

vars == <<dep, instances, stop_on_error, force_build, max_workers_build_image,
          dockerImages, pc, external_images, images, building_images,
          failed_images, futures, wave, submitCount, submitWave, okWave,
          failWave, buildCalls, ctxWrites, max_workers_run_instance,
          patches, prior_patch, fixPatch, reports, ipc, ifutures,
          failed_instances, pass, reports0, persisted, runtimeCalls,
          ierror, repo_of, base_sha, local_commits, unresolvable,
          commit_errors, mode, dataset_lines, fail_phase, outcome, phaseLog,
          selection, sandbox, parsing>>

imageVars == <<dep, force_build, max_workers_build_image, dockerImages, pc,
               external_images, images, building_images, failed_images,
               futures, wave, submitCount, submitWave, okWave, failWave,
               buildCalls, ctxWrites>>

runnerVars == <<max_workers_run_instance, patches, prior_patch, fixPatch,
                reports, ipc, ifutures, failed_instances, pass, reports0,
                persisted, runtimeCalls, ierror, phaseLog>>

preflightVars == <<repo_of, base_sha, local_commits, unresolvable,
                   commit_errors>>

toolVars == <<selection, sandbox, parsing>>

programVars == <<mode, dataset_lines, fail_phase, outcome, toolVars>>

MaxImages == 3
MaxWorkers == 2

Nodes == 1..MaxImages
Externals == {0}
Names == Nodes \cup Externals

\* ------------------------------------------------------------------ images

Image(n, p) == [kind |-> "Image", name |-> n, pr |-> p]
ExternalRef(e) == [kind |-> "External", name |-> e, pr |-> 0]
IsImage(x) == x.kind = "Image"

\* Image.dependency(): the parent object is created by the same pull request.
Dependency(img) ==
    IF dep[img.name] \in Nodes THEN Image(dep[img.name], img.pr)
    ELSE ExternalRef(dep[img.name])

\* Instance.dependency()
InstanceDependency(inst) == Image(inst.leaf, inst.id)

\* Image.__eq__ / __hash__: two Image objects are one set member when their
\* full names agree.
ImageEq(a, b) == a.name = b.name

\* an assignment in the place of set.add: the set holds the last member only
SetAddMutReplace(s, x) == {x}

\* set.add under ImageEq: the member inserted first stays.
SetAdd(s, x) == IF \E y \in s : ImageEq(x, y) THEN s ELSE s \cup {x}

\* x in s under ImageEq
SetHas(s, x) == \E y \in s : ImageEq(x, y)

\* image references: image_full_name() and image_full_name() + "_v1"
FullRef(n) == [name |-> n, v1 |-> FALSE]
V1Ref(n) == [name |-> n, v1 |-> TRUE]

\* Image.dockerfile(): FROM {name}:{tag} of the dependency
DockerfileBase(n) == FullRef(dep[n])

\* ------------------------------------------------------- graph construction

\* an if in the place of the while: the first edge of the chain only
WalkChainMutOneLevel(g, required_image) ==
    IF ~IsImage(required_image) THEN g
    ELSE LET parent_image == Dependency(required_image)
             parent_image_name == parent_image.name
             ext == IF IsImage(parent_image) THEN g.external_images
                    ELSE g.external_images \cup {parent_image_name}
             old == IF parent_image_name \in DOMAIN g.images
                    THEN g.images[parent_image_name] ELSE {}
         IN  [external_images |-> ext,
              images |-> [k \in DOMAIN g.images \cup {parent_image_name} |->
                            IF k = parent_image_name
                            THEN SetAdd(old, required_image)
                            ELSE g.images[k]]]

\* The while loop of run_mode_image over one instance's chain.
RECURSIVE WalkChain(_, _)
WalkChain(g, required_image) ==
    IF ~IsImage(required_image) THEN g
    ELSE LET parent_image == Dependency(required_image)
             parent_image_name == parent_image.name
             ext == IF IsImage(parent_image) THEN g.external_images
                    ELSE g.external_images \cup {parent_image_name}
             old == IF parent_image_name \in DOMAIN g.images
                    THEN g.images[parent_image_name] ELSE {}
             imgs == [k \in DOMAIN g.images \cup {parent_image_name} |->
                        IF k = parent_image_name THEN SetAdd(old, required_image)
                        ELSE g.images[k]]
         IN  WalkChain([external_images |-> ext, images |-> imgs], parent_image)

\* The for loop over self.instances.
RECURSIVE GraphFrom(_, _, _)
GraphFrom(g, insts, i) ==
    IF i > Len(insts) THEN g
    ELSE GraphFrom(WalkChain(g, InstanceDependency(insts[i])), insts, i + 1)

EmptyGraph == [external_images |-> {}, images |-> << >>]

\* building_images seeded from the external names.
RootsMutAllKeys(ext, imgs) == DOMAIN imgs
Roots(ext, imgs) == ext

\* set union under ImageEq: one member per class of equal objects.
Dedup(S) == {x \in S : \A y \in S : ImageEq(x, y) => x.pr <= y.pr}

FirstWave(ext, imgs) == Dedup(UNION {imgs[r] : r \in Roots(ext, imgs)})

\* ------------------------------------------------------------- build_image

\* docker_util.exists(image.image_full_name())
Exists(n) == FullRef(n) \in dockerImages

\* The early return of build_image.
SkipBuildMutIgnoreExists(n) == FALSE
SkipBuild(n) == ~force_build /\ Exists(n)

Bump(f, n) == [f EXCEPT ![n] = @ + 1]

\* build_image(image) when docker_util.build returns (ok) or raises (~ok).
BuildImage(n, ok) ==
    IF SkipBuild(n)
    THEN /\ ok
         /\ UNCHANGED <<ctxWrites, buildCalls, dockerImages>>
    ELSE /\ ctxWrites' = Bump(ctxWrites, n)
         /\ buildCalls' = Bump(buildCalls, n)
         /\ dockerImages' = IF ok THEN dockerImages \cup {V1Ref(n)}
                            ELSE dockerImages

\* ------------------------------------------------------------ state tuples

inputs == <<dep, instances, stop_on_error, force_build, max_workers_build_image>>
graph == <<external_images, images>>
history == <<wave, submitCount, submitWave>>

InStatus(st) == {x \in DOMAIN futures : futures[x] = st}
Finished == {x \in DOMAIN futures : futures[x] \in {"seen_ok", "seen_raised"}}

\* ------------------------------------------------------ check_commit_hashes

\* A pull request id is the key (org, repo, number): the ids 1..MaxImages are
\* the pull requests of one repository, numbered by their id; OtherRepo(id)
\* is the pull request of the same number in another repository.
\* instance.pr.number, patch.number:
NumberOf(id) == ((id - 1) % MaxImages) + 1
OtherRepo(id) == id + MaxImages
PrNumber(inst) == NumberOf(inst.id)

\* the instances of repository r that declare base commit h
Declaring(r, h) ==
    {i \in 1..Len(instances) : repo_of[i] = r /\ base_sha[i] = h}

\* lines 484-491: one RepoCommits per repository; commits[sha] = pr.number is
\* assigned in the order of self.instances, the last assignment stays.
LastDeclaring(r, h) ==
    CHOOSE i \in Declaring(r, h) : \A j \in Declaring(r, h) : j <= i

RepoCommits ==
    [r \in {repo_of[i] : i \in 1..Len(instances)} |->
        [h \in {base_sha[i] : i \in {j \in 1..Len(instances) : repo_of[j] = r}}
            |-> PrNumber(instances[LastDeclaring(r, h)])]]

\* lines 551-565: the logger.error calls of the check of repository r; the
\* record of an empty commit list names no pull request.
NoCommitHashes(r) == [repo |-> r, pr |-> 0, sha |-> "none"]
RepoErrors(r) ==
    IF local_commits[r] = {} THEN {NoCommitHashes(r)}
    ELSE {[repo |-> r, pr |-> RepoCommits[r][h], sha |-> h] :
            h \in {k \in DOMAIN RepoCommits[r] : k \notin local_commits[r]}}

CommitErrors == UNION {RepoErrors(r) : r \in DOMAIN RepoCommits}

\* lines 568-569: if error_happened: raise ValueError
ErrorHappenedMutNever == FALSE
ErrorHappened == CommitErrors # {}

\* lines 531-569 and line 612: every repository is checked, then the
\* ValueError is raised if an error was logged.
CheckCommitHashes ==
    /\ pc = "check"
    /\ commit_errors' = CommitErrors
    /\ pc' = IF ErrorHappened THEN "check_raised" ELSE "start"
    /\ UNCHANGED runnerVars
    /\ UNCHANGED <<inputs, graph, dockerImages, building_images,
                   failed_images, futures, history, okWave, failWave,
                   buildCalls, ctxWrites, repo_of, base_sha, local_commits,
                   unresolvable>>
    /\ UNCHANGED programVars

\* ---------------------------------------------------------- run_mode_image

\* lines 617-632 hold no try: an exception of dependency() leaves
\* run_mode_image.
ResolutionRaises ==
    \E i \in 1..Len(instances) : instances[i].id \in unresolvable

\* lines 614-641
ConstructGraph ==
    /\ pc = "start"
    /\ IF ResolutionRaises
       THEN /\ pc' = "graph_raised"
            /\ UNCHANGED <<external_images, images, building_images>>
       ELSE LET g == GraphFrom(EmptyGraph, instances, 1)
            IN  /\ external_images' = g.external_images
                /\ images' = g.images
                /\ building_images' = FirstWave(g.external_images, g.images)
                /\ pc' = "loop"
    /\ UNCHANGED runnerVars
    /\ UNCHANGED preflightVars
    /\ UNCHANGED programVars
    /\ UNCHANGED <<inputs, dockerImages, failed_images, futures, history,
                   okWave, failWave, buildCalls, ctxWrites>>

\* lines 644-653: the executor of the wave is created, every image of
\* building_images is submitted, failed_images starts empty.
SubmitWave ==
    /\ pc = "loop"
    /\ building_images # {}
    /\ futures' = [x \in building_images |-> "pending"]
    /\ failed_images' = {}
    /\ wave' = wave + 1
    /\ submitCount' = [n \in Nodes |->
          submitCount[n] + Cardinality({x \in building_images : x.name = n})]
    /\ submitWave' = [n \in Nodes |->
          IF \E x \in building_images : x.name = n THEN wave + 1
          ELSE submitWave[n]]
    /\ pc' = "collect"
    /\ UNCHANGED runnerVars
    /\ UNCHANGED preflightVars
    /\ UNCHANGED programVars
    /\ UNCHANGED <<inputs, graph, dockerImages, building_images, okWave,
                   failWave, buildCalls, ctxWrites>>

\* line 644: the while condition is false.
LoopExit ==
    /\ pc = "loop"
    /\ building_images = {}
    /\ pc' = "done"
    /\ UNCHANGED runnerVars
    /\ UNCHANGED preflightVars
    /\ UNCHANGED programVars
    /\ UNCHANGED <<inputs, graph, dockerImages, building_images,
                   failed_images, futures, history, okWave, failWave,
                   buildCalls, ctxWrites>>

\* lines 645-647: ThreadPoolExecutor(max_workers=self.max_workers_build_image)
BuildPoolSizeMutShared == max_workers_run_instance
BuildPoolSize == max_workers_build_image

\* A pool thread takes a queued work item: at most max_workers threads.
WorkerStart(x) ==
    /\ x \in InStatus("pending")
    /\ Cardinality(InStatus("running")) < BuildPoolSize
    /\ futures' = [futures EXCEPT ![x] = "running"]
    /\ UNCHANGED runnerVars
    /\ UNCHANGED preflightVars
    /\ UNCHANGED programVars
    /\ UNCHANGED <<inputs, graph, dockerImages, pc, building_images,
                   failed_images, history, okWave, failWave, buildCalls,
                   ctxWrites>>

\* a worker that records its own failure in the coordinator's failed set
WorkerFinishMutRecordsFailure(x, ok) ==
    /\ x \in InStatus("running")
    /\ BuildImage(x.name, ok)
    /\ futures' = [futures EXCEPT ![x] = IF ok THEN "ok" ELSE "raised"]
    /\ okWave' = IF ok THEN [okWave EXCEPT ![x.name] = wave] ELSE okWave
    /\ failWave' = IF ok THEN failWave ELSE [failWave EXCEPT ![x.name] = wave]
    /\ failed_images' = IF ok THEN failed_images ELSE SetAdd(failed_images, x)
    /\ UNCHANGED runnerVars
    /\ UNCHANGED preflightVars
    /\ UNCHANGED programVars
    /\ UNCHANGED <<inputs, graph, pc, building_images, history>>

\* build_image returns or raises in its worker.
WorkerFinish(x, ok) ==
    /\ x \in InStatus("running")
    /\ BuildImage(x.name, ok)
    /\ futures' = [futures EXCEPT ![x] = IF ok THEN "ok" ELSE "raised"]
    /\ okWave' = IF ok THEN [okWave EXCEPT ![x.name] = wave] ELSE okWave
    /\ failWave' = IF ok THEN failWave ELSE [failWave EXCEPT ![x.name] = wave]
    /\ UNCHANGED runnerVars
    /\ UNCHANGED preflightVars
    /\ UNCHANGED programVars
    /\ UNCHANGED <<inputs, graph, pc, building_images, failed_images, history>>

\* lines 654-668: as_completed yields a finished future.
StopMutNever == FALSE
Stop == stop_on_error

Observe(x) ==
    /\ pc = "collect"
    /\ futures[x] \in {"ok", "raised"}
    /\ IF futures[x] = "ok"
       THEN /\ futures' = [futures EXCEPT ![x] = "seen_ok"]
            /\ UNCHANGED <<failed_images, pc>>
       ELSE /\ futures' = [futures EXCEPT ![x] = "seen_raised"]
            /\ failed_images' = SetAdd(failed_images, x)
            /\ pc' = IF Stop THEN "raising" ELSE "collect"
    /\ UNCHANGED runnerVars
    /\ UNCHANGED preflightVars
    /\ UNCHANGED programVars
    /\ UNCHANGED <<inputs, graph, dockerImages, building_images, history,
                   okWave, failWave, buildCalls, ctxWrites>>

\* lines 670-680
NextWaveMutKeepFailed(bi, fi, imgs) ==
    Dedup(UNION {imgs[x.name] : x \in {y \in bi : y.name \in DOMAIN imgs}})
NextWaveMutSame(bi, fi, imgs) == bi
NextWaveMutDropAll(bi, fi, imgs) ==
    IF fi # {} THEN {}
    ELSE Dedup(UNION {imgs[x.name] : x \in {y \in bi : y.name \in DOMAIN imgs}})
NextWave(bi, fi, imgs) ==
    Dedup(UNION {imgs[x.name] :
                   x \in {y \in bi : ~SetHas(fi, y) /\ y.name \in DOMAIN imgs}})

\* line 654: the for loop over as_completed(futures) ends when every future
\* of the wave was yielded.
WaveConsumedMutFirst == Finished # {}
WaveConsumed == Finished = DOMAIN futures

\* The with block of the executor ends (every future was consumed), the next
\* wave is computed.
WaveEnd ==
    /\ pc = "collect"
    /\ WaveConsumed
    /\ building_images' = NextWave(building_images, failed_images, images)
    /\ pc' = "loop"
    /\ UNCHANGED runnerVars
    /\ UNCHANGED preflightVars
    /\ UNCHANGED programVars
    /\ UNCHANGED <<inputs, graph, dockerImages, failed_images, futures,
                   history, okWave, failWave, buildCalls, ctxWrites>>

\* The RuntimeError leaves the with block: ThreadPoolExecutor.__exit__ joins
\* the pool threads, then run_mode_image raises.
RaiseOut ==
    /\ pc = "raising"
    /\ InStatus("pending") = {} /\ InStatus("running") = {}
    /\ pc' = "raised"
    /\ UNCHANGED runnerVars
    /\ UNCHANGED preflightVars
    /\ UNCHANGED programVars
    /\ UNCHANGED <<inputs, graph, dockerImages, building_images,
                   failed_images, futures, history, okWave, failWave,
                   buildCalls, ctxWrites>>

\* ------------------------------------------------------------------- inputs

\* dependency chains are acyclic: the upstream of an image has a smaller name.
DepFunctions == {d \in [Nodes -> Names] : \A n \in Nodes : d[n] < n}

\* one instance per chosen leaf image, in ascending order.
RECURSIVE InstanceList(_)
InstanceList(S) ==
    IF S = {} THEN << >>
    ELSE LET m == CHOOSE a \in S : \A b \in S : a <= b
         IN  <<[id |-> m, leaf |-> m]>> \o InstanceList(S \ {m})

InitCommon ==
    /\ stop_on_error \in BOOLEAN
    /\ external_images = {}
    /\ images = << >>
    /\ building_images = {}
    /\ failed_images = {}
    /\ futures = << >>
    /\ wave = 0
    /\ submitCount = [n \in Nodes |-> 0]
    /\ submitWave = [n \in Nodes |-> 0]
    /\ okWave = [n \in Nodes |-> 0]
    /\ failWave = [n \in Nodes |-> 0]
    /\ buildCalls = [n \in Nodes |-> 0]
    /\ ctxWrites = [n \in Nodes |-> 0]

Repos == {"r1", "r2"}
Shas == {"a", "b"}

\* The instances were loaded from the dataset files; mode "instance"; a test
\* run that fails does so in its first phase.
ToolsIdle ==
    /\ selection = [pc |-> "idle"]
    /\ sandbox = [pc |-> "idle"]
    /\ parsing = [pc |-> "idle"]

ProgramDefaults ==
    /\ mode = "instance"
    /\ dataset_lines = [i \in 1..Len(instances) |-> instances[i].id]
    /\ fail_phase = 1
    /\ outcome = "running"
    /\ ToolsIdle

\* check_commit_hashes returned: every base commit is in the local clone of
\* its repository, every dependency chain resolves.
PreflightPassed ==
    /\ repo_of = [i \in 1..Len(instances) |-> "r1"]
    /\ base_sha = [i \in 1..Len(instances) |-> "a"]
    /\ local_commits = [r \in Repos |-> Shas]
    /\ unresolvable = {}
    /\ commit_errors = {}

\* The instance runner has not started.
RunnerIdle ==
    /\ max_workers_run_instance = 1
    /\ patches = << >>
    /\ prior_patch = "new"
    /\ fixPatch = << >>
    /\ reports = {}
    /\ ipc = "idle"
    /\ ifutures = << >>
    /\ failed_instances = << >>
    /\ pass = 1
    /\ reports0 = {}
    /\ persisted = {}
    /\ runtimeCalls = << >>
    /\ ierror = << >>
    /\ phaseLog = << >>

\* The runtime holds no image of this system, or the images built straight on
\* an external base (left by an earlier run).
Init ==
    /\ InitCommon
    /\ pc = "start"
    /\ dep \in DepFunctions
    /\ instances \in {InstanceList(S) : S \in SUBSET Nodes}
    /\ force_build \in BOOLEAN
    /\ max_workers_build_image \in 1..MaxWorkers
    /\ dockerImages \in {{}, {FullRef(n) : n \in {m \in Nodes : dep[m] \in Externals}}}
    /\ RunnerIdle
    /\ PreflightPassed
    /\ ProgramDefaults

Next ==
    \/ ConstructGraph
    \/ SubmitWave
    \/ LoopExit
    \/ \E x \in DOMAIN futures : WorkerStart(x)
    \/ \E x \in DOMAIN futures, ok \in BOOLEAN : WorkerFinish(x, ok)
    \/ \E x \in DOMAIN futures : Observe(x)
    \/ WaveEnd
    \/ RaiseOut

Spec == Init /\ [][Next]_vars

\* run_mode_image over a runtime without images, every build being called.
InitWaves ==
    /\ Init
    /\ ~force_build
    /\ dockerImages = {}
    /\ max_workers_build_image = MaxWorkers

SpecWaves == InitWaves /\ [][Next]_vars


\* ---------------------------------------------------------- run_instance

MaxInstances == 2
MaxPasses == 2

\* instance_dir: workdir / org / repo / EVALUATION_WORKDIR /
\* instance.dependency().workdir(); the workdir of an image is its tag.
InstanceDir(inst) == InstanceDependency(inst).name

\* report_path.exists()
ReportExistsMutNever(inst) == FALSE
ReportExistsMutInverted(inst) == InstanceDir(inst) \notin reports
ReportExists(inst) == InstanceDir(inst) \in reports

IInStatus(st) == {i \in DOMAIN ifutures : ifutures[i] = st}
IFinished ==
    {i \in DOMAIN ifutures : ifutures[i] \in {"seen_ok", "seen_raised"}}

\* lines 731-738: the pool is created and every instance is submitted.
SubmitInstances ==
    /\ ipc = "start"
    /\ ifutures' = [i \in 1..Len(instances) |-> "pending"]
    /\ failed_instances' = << >>
    /\ ierror' = [i \in 1..Len(instances) |-> ""]
    /\ phaseLog' = [i \in 1..Len(instances) |-> << >>]
    /\ ipc' = "collect"
    /\ UNCHANGED imageVars
    /\ UNCHANGED preflightVars
    /\ UNCHANGED programVars
    /\ UNCHANGED <<instances, stop_on_error, max_workers_run_instance,
                   patches, prior_patch, fixPatch, reports, pass, reports0,
                   persisted, runtimeCalls>>

\* lines 732-734: ThreadPoolExecutor(max_workers=self.max_workers_run_instance)
RunPoolSize == max_workers_run_instance

\* A pool thread takes a queued run_instance work item.
InstanceWorkerStart(i) ==
    /\ i \in IInStatus("pending")
    /\ Cardinality(IInStatus("running") \cup IInStatus("phases")) < RunPoolSize
    /\ ifutures' = [ifutures EXCEPT ![i] = "running"]
    /\ UNCHANGED phaseLog
    /\ UNCHANGED imageVars
    /\ UNCHANGED preflightVars
    /\ UNCHANGED programVars
    /\ UNCHANGED <<instances, stop_on_error, max_workers_run_instance,
                   patches, prior_patch, fixPatch, reports, ipc,
                   failed_instances, pass, reports0, persisted,
                   runtimeCalls, ierror>>

\* lines 694-696: open(fix_patch_path, "w") empties the file, then the text
\* of self.patches[instance.pr.id] is written (a KeyError leaves it empty).
FixPatchWritten(inst) ==
    IF inst.id \in DOMAIN patches THEN patches[inst.id] ELSE "empty"

\* lines 684-717: run_instance up to the call of run_and_build_dockerfile:
\* fix.patch is written, then the report is looked for.
RunInstance(i) ==
    /\ i \in IInStatus("running")
    /\ fixPatch' = [fixPatch EXCEPT ![InstanceDir(instances[i])] =
                       FixPatchWritten(instances[i])]
    /\ IF instances[i].id \notin DOMAIN patches
       THEN /\ ifutures' = [ifutures EXCEPT ![i] = "raised"]
            /\ ierror' = [ierror EXCEPT ![i] = "KeyError"]
            /\ UNCHANGED runtimeCalls
       ELSE IF ReportExists(instances[i])
       THEN /\ ifutures' = [ifutures EXCEPT ![i] = "ok"]
            /\ UNCHANGED <<runtimeCalls, ierror>>
       ELSE /\ ifutures' = [ifutures EXCEPT ![i] = "phases"]
            /\ runtimeCalls' = Bump(runtimeCalls, i)
            /\ UNCHANGED ierror
    /\ UNCHANGED phaseLog
    /\ UNCHANGED imageVars
    /\ UNCHANGED preflightVars
    /\ UNCHANGED programVars
    /\ UNCHANGED <<instances, stop_on_error, max_workers_run_instance,
                   patches, prior_patch, reports, ipc, failed_instances,
                   pass, reports0, persisted>>

\* run_and_build_dockerfile (multi_swe_bench/utils/session_util.py) ends: the
\* phases ran and the report of the instance is persisted (ok), or it raises
\* and run_instance re-raises (lines 718-720).
RunAndBuildDockerfile(inst, ok) ==
    reports' = IF ok THEN reports \cup {InstanceDir(inst)} ELSE reports

\* Instance.run, test_patch_run and fix_patch_run name the commands of the
\* three phases.
Phases == <<"run", "test_patch_run", "fix_patch_run">>

\* The phases run_and_build_dockerfile executes: all of them when it returns,
\* those before the failing one when it raises.
PhasesRunMutFixOnly(ok) == <<"fix_patch_run">>
PhasesRun(ok) == IF ok THEN Phases ELSE SubSeq(Phases, 1, fail_phase - 1)

RunPhases(i, ok) ==
    /\ i \in IInStatus("phases")
    /\ RunAndBuildDockerfile(instances[i], ok)
    /\ ifutures' = [ifutures EXCEPT ![i] = IF ok THEN "ok" ELSE "raised"]
    /\ persisted' = IF ok THEN persisted \cup {InstanceDir(instances[i])}
                    ELSE persisted
    /\ ierror' = IF ok THEN ierror ELSE [ierror EXCEPT ![i] = "RunError"]
    /\ phaseLog' = [phaseLog EXCEPT ![i] = PhasesRun(ok)]
    /\ UNCHANGED imageVars
    /\ UNCHANGED preflightVars
    /\ UNCHANGED programVars
    /\ UNCHANGED <<instances, stop_on_error, max_workers_run_instance,
                   patches, prior_patch, fixPatch, ipc, failed_instances,
                   pass, reports0, runtimeCalls>>

\* line 748: failed_instances.append((instance.pr.id, str(e)))
FailedAppendMutDrop(fi, inst, msg) == fi
FailedAppend(fi, inst, msg) == Append(fi, <<inst.id, msg>>)

\* lines 740-754: as_completed yields a finished future.
ObserveInstance(i) ==
    /\ ipc = "collect"
    /\ ifutures[i] \in {"ok", "raised"}
    /\ IF ifutures[i] = "ok"
       THEN /\ ifutures' = [ifutures EXCEPT ![i] = "seen_ok"]
            /\ UNCHANGED <<failed_instances, ipc>>
       ELSE /\ ifutures' = [ifutures EXCEPT ![i] = "seen_raised"]
            /\ failed_instances' =
                  FailedAppend(failed_instances, instances[i], ierror[i])
            /\ ipc' = IF Stop THEN "raising" ELSE "collect"
    /\ UNCHANGED phaseLog
    /\ UNCHANGED imageVars
    /\ UNCHANGED preflightVars
    /\ UNCHANGED programVars
    /\ UNCHANGED <<instances, stop_on_error, max_workers_run_instance,
                   patches, prior_patch, fixPatch, reports, pass, reports0,
                   persisted, runtimeCalls, ierror>>

\* lines 756-761: every future was consumed, the summary is logged.
InstancesEnd ==
    /\ ipc = "collect"
    /\ IFinished = DOMAIN ifutures
    /\ ipc' = "done"
    /\ UNCHANGED phaseLog
    /\ UNCHANGED imageVars
    /\ UNCHANGED preflightVars
    /\ UNCHANGED programVars
    /\ UNCHANGED <<instances, stop_on_error, max_workers_run_instance,
                   patches, prior_patch, fixPatch, reports, ifutures,
                   failed_instances, pass, reports0, persisted,
                   runtimeCalls, ierror>>

\* The RuntimeError leaves the with block (the pool threads are joined).
InstancesRaiseOut ==
    /\ ipc = "raising"
    /\ IInStatus("pending") = {} /\ IInStatus("running") = {}
    /\ IInStatus("phases") = {}
    /\ ipc' = "raised"
    /\ UNCHANGED phaseLog
    /\ UNCHANGED imageVars
    /\ UNCHANGED preflightVars
    /\ UNCHANGED programVars
    /\ UNCHANGED <<instances, stop_on_error, max_workers_run_instance,
                   patches, prior_patch, fixPatch, reports, ifutures,
                   failed_instances, pass, reports0, persisted,
                   runtimeCalls, ierror>>

\* The program is started again over the report directory it left.
NextPass ==
    /\ ipc \in {"done", "raised"}
    /\ pass < MaxPasses
    /\ pass' = pass + 1
    /\ reports0' = reports
    /\ runtimeCalls' = [i \in DOMAIN runtimeCalls |-> 0]
    /\ ifutures' = << >>
    /\ failed_instances' = << >>
    /\ ierror' = << >>
    /\ phaseLog' = << >>
    /\ ipc' = "start"
    /\ UNCHANGED imageVars
    /\ UNCHANGED preflightVars
    /\ UNCHANGED programVars
    /\ UNCHANGED <<instances, stop_on_error, max_workers_run_instance,
                   patches, prior_patch, fixPatch, reports, persisted>>

\* The images were built; an earlier pass left a report (and the fix.patch it
\* wrote) in some of the instance directories.  The instances are selected
\* by pull request number (lines 466-470), self.patches is keyed by id, so a
\* selected instance may have no entry in self.patches.
InitInst ==
    /\ InitCommon
    /\ pc = "done"
    /\ dep = [n \in Nodes |-> 0]
    /\ instances \in {InstanceList(S) : S \in SUBSET (1..MaxInstances)}
    /\ force_build = FALSE
    /\ max_workers_build_image = 1
    /\ dockerImages = {}
    /\ max_workers_run_instance \in 1..MaxWorkers
    /\ patches \in {[id \in {instances[i].id : i \in 1..Len(instances)} \ S
                        |-> "new"] :
                      S \in SUBSET {instances[i].id : i \in 1..Len(instances)}}
    /\ prior_patch \in {"old", "new"}
    /\ reports \in SUBSET {InstanceDir(instances[i]) : i \in 1..Len(instances)}
    /\ reports0 = reports
    /\ persisted = {}
    /\ fixPatch = [d \in {InstanceDir(instances[i]) : i \in 1..Len(instances)} |->
                      IF d \in reports THEN prior_patch ELSE "absent"]
    /\ ipc = "start"
    /\ ifutures = << >>
    /\ failed_instances = << >>
    /\ pass = 1
    /\ runtimeCalls = [i \in 1..Len(instances) |-> 0]
    /\ ierror = << >>
    /\ phaseLog = << >>
    /\ PreflightPassed
    /\ ProgramDefaults

NextInst ==
    \/ SubmitInstances
    \/ \E i \in DOMAIN ifutures : InstanceWorkerStart(i)
    \/ \E i \in DOMAIN ifutures : RunInstance(i)
    \/ \E i \in DOMAIN ifutures, ok \in BOOLEAN : RunPhases(i, ok)
    \/ \E i \in DOMAIN ifutures : ObserveInstance(i)
    \/ InstancesEnd
    \/ InstancesRaiseOut
    \/ NextPass

SpecInst == InitInst /\ [][NextInst]_vars

\* ------------------------------------------------- dataset and instances

\* lines 400-426: self._dataset[dataset.id] = dataset for every record of the
\* dataset files: a dict holds one entry per id, at the place of the first
\* record with that id.
RECURSIVE DatasetFrom(_, _, _)
DatasetFrom(keys, lines, k) ==
    IF k > Len(lines) THEN keys
    ELSE DatasetFrom(IF \E j \in 1..Len(keys) : keys[j] = lines[k]
                     THEN keys ELSE Append(keys, lines[k]),
                     lines, k + 1)

DatasetKeysMutList(lines) == lines
DatasetKeys(lines) == DatasetFrom(<< >>, lines, 1)

\* Instance.create(pr, config): the id of a pull request is its key (org,
\* repo, number); the image of the instance is tagged and kept under
\* pr-{number}.
InstanceCreate(id) == [id |-> id, leaf |-> id]

\* lines 455-470: one instance per entry of the dataset, kept when its
\* number is the number of some patch.
PatchNumbers == {NumberOf(id) : id \in DOMAIN patches}

LoadedInstances(lines) ==
    SelectSeq([k \in 1..Len(DatasetKeys(lines)) |->
                  InstanceCreate(DatasetKeys(lines)[k])],
              LAMBDA inst : PrNumber(inst) \in PatchNumbers)

\* CliArgs.instances is evaluated for the first time.
LoadInstances ==
    /\ ipc = "load"
    /\ instances' = LoadedInstances(dataset_lines)
    /\ runtimeCalls' = [i \in 1..Len(LoadedInstances(dataset_lines)) |-> 0]
    /\ ipc' = "start"
    /\ UNCHANGED imageVars
    /\ UNCHANGED preflightVars
    /\ UNCHANGED programVars
    /\ UNCHANGED <<stop_on_error, max_workers_run_instance, patches,
                   prior_patch, fixPatch, reports, ifutures,
                   failed_instances, pass, reports0, persisted, ierror,
                   phaseLog>>

\* The dataset files hold up to MaxInstances + 1 records, some of them with
\* the id of an earlier record; no report was written yet.
InitLoad ==
    /\ InitCommon
    /\ pc = "done"
    /\ dep = [n \in Nodes |-> 0]
    /\ instances = << >>
    /\ force_build = FALSE
    /\ max_workers_build_image = 1
    /\ dockerImages = {}
    /\ max_workers_run_instance = MaxWorkers
    /\ patches = [id \in 1..MaxInstances |-> "new"]
    /\ prior_patch = "new"
    /\ reports = {}
    /\ reports0 = {}
    /\ persisted = {}
    /\ fixPatch = [d \in 1..MaxInstances |-> "absent"]
    /\ ipc = "load"
    /\ ifutures = << >>
    /\ failed_instances = << >>
    /\ pass = 1
    /\ runtimeCalls = << >>
    /\ ierror = << >>
    /\ phaseLog = << >>
    /\ PreflightPassed
    /\ mode = "instance"
    /\ dataset_lines \in UNION {[1..k -> 1..MaxInstances] :
                                  k \in 0..(MaxInstances + 1)}
    /\ fail_phase = 1
    /\ outcome = "running"
    /\ ToolsIdle

NextLoad ==
    \/ LoadInstances
    \/ SubmitInstances
    \/ \E i \in DOMAIN ifutures : InstanceWorkerStart(i)
    \/ \E i \in DOMAIN ifutures : RunInstance(i)
    \/ \E i \in DOMAIN ifutures, ok \in BOOLEAN : RunPhases(i, ok)
    \/ \E i \in DOMAIN ifutures : ObserveInstance(i)
    \/ InstancesEnd
    \/ InstancesRaiseOut

SpecLoad == InitLoad /\ [][NextLoad]_vars

\* ------------------------------------------------------ run_mode_instance

\* lines 763-765: run_mode_image returned, run_mode_instance_only is entered.
\* An exception of run_mode_image leaves run_mode_instance (and run(), lines
\* 767-777, ends the program): the instance runner is not entered.
EnterInstanceRunner ==
    /\ pc = "done"
    /\ ipc = "idle"
    /\ ipc' = "start"
    /\ UNCHANGED phaseLog
    /\ UNCHANGED imageVars
    /\ UNCHANGED preflightVars
    /\ UNCHANGED programVars
    /\ UNCHANGED <<instances, stop_on_error, max_workers_run_instance,
                   patches, prior_patch, fixPatch, reports, ifutures,
                   failed_instances, pass, reports0, persisted,
                   runtimeCalls, ierror>>

\* lines 767-777: run_mode_instance returned, run() returns.
RunReturns ==
    /\ outcome = "running"
    /\ ipc = "done"
    /\ outcome' = "returned"
    /\ UNCHANGED <<imageVars, runnerVars, preflightVars, instances,
                   stop_on_error, mode, dataset_lines, fail_phase, toolVars>>

\* lines 769-777: an exception left run_mode_instance; sys.exit(1) when
\* stop_on_error, the exception is raised again otherwise.
RunAborts ==
    /\ outcome = "running"
    /\ pc \in {"check_raised", "graph_raised", "raised"} \/ ipc = "raised"
    /\ outcome' = IF stop_on_error THEN "exit_1" ELSE "reraised"
    /\ UNCHANGED <<imageVars, runnerVars, preflightVars, instances,
                   stop_on_error, mode, dataset_lines, fail_phase, toolVars>>

\* lines 253-260: the modes _check_mode admits and run() is started with
Modes == {"evaluation", "instance", "instance_only", "image"}

\* every image on the external base, or every image on the image before it
StarDep == [n \in Nodes |-> 0]
ChainDep == [n \in Nodes |-> n - 1]

\* A first run of the program: no image, no report; the local clone holds
\* every base commit or lacks the one the instances declare; some instances
\* may have a dependency chain that does not resolve.
InitRun ==
    /\ InitCommon
    /\ pc = "check"
    /\ dep \in {StarDep, ChainDep}
    /\ instances \in {InstanceList(S) : S \in SUBSET (1..MaxInstances)}
    /\ force_build = FALSE
    /\ dockerImages = {}
    /\ max_workers_build_image \in {1, MaxWorkers}
    /\ max_workers_run_instance =
          IF max_workers_build_image = 1 THEN MaxWorkers ELSE 1
    /\ repo_of = [i \in 1..Len(instances) |-> "r1"]
    /\ base_sha = [i \in 1..Len(instances) |-> "a"]
    /\ local_commits \in {[r \in Repos |-> Shas], [r \in Repos |-> Shas \ {"a"}]}
    /\ unresolvable \in SUBSET {instances[i].id : i \in 1..Len(instances)}
    /\ commit_errors = {}
    /\ mode \in Modes
    /\ dataset_lines = [i \in 1..Len(instances) |-> instances[i].id]
    /\ fail_phase \in 1..Len(Phases)
    /\ outcome = "running"
    /\ ToolsIdle
    /\ patches = [id \in {instances[i].id : i \in 1..Len(instances)} |-> "new"]
    /\ prior_patch = "new"
    /\ reports = {}
    /\ reports0 = {}
    /\ persisted = {}
    /\ fixPatch = [d \in {InstanceDir(instances[i]) : i \in 1..Len(instances)}
                      |-> "absent"]
    /\ ipc = "idle"
    /\ ifutures = << >>
    /\ failed_instances = << >>
    /\ pass = 1
    /\ runtimeCalls = [i \in 1..Len(instances) |-> 0]
    /\ ierror = << >>
    /\ phaseLog = << >>

NextRun ==
    \/ CheckCommitHashes
    \/ Next
    \/ EnterInstanceRunner
    \/ SubmitInstances
    \/ \E i \in DOMAIN ifutures : InstanceWorkerStart(i)
    \/ \E i \in DOMAIN ifutures : RunInstance(i)
    \/ \E i \in DOMAIN ifutures, ok \in BOOLEAN : RunPhases(i, ok)
    \/ \E i \in DOMAIN ifutures : ObserveInstance(i)
    \/ InstancesEnd
    \/ InstancesRaiseOut
    \/ RunReturns
    \/ RunAborts

SpecRun == InitRun /\ [][NextRun]_vars

\* check_commit_hashes alone, over instances of two repositories.
InitCheck ==
    /\ InitCommon
    /\ pc = "check"
    /\ dep = StarDep
    /\ instances \in {InstanceList(S) : S \in SUBSET (1..MaxInstances)}
    /\ force_build = FALSE
    /\ max_workers_build_image = 1
    /\ dockerImages = {}
    /\ RunnerIdle
    /\ repo_of \in [1..Len(instances) -> Repos]
    /\ base_sha \in [1..Len(instances) -> Shas]
    /\ local_commits \in [Repos -> SUBSET Shas]
    /\ unresolvable = {}
    /\ commit_errors = {}
    /\ ProgramDefaults

SpecCheck == InitCheck /\ [][CheckCommitHashes]_vars

\* ------------------------------------------------ the graph the inputs imply

RECURSIVE Ancestors(_)
Ancestors(n) ==
    IF dep[n] \in Nodes THEN {dep[n]} \cup Ancestors(dep[n]) ELSE {}

Chain(n) == {n} \cup Ancestors(n)
Descendants(n) == {d \in Nodes : n \in Ancestors(d)}
GraphNodes == UNION {Chain(instances[i].leaf) : i \in 1..Len(instances)}
Submitted(n) == submitCount[n] > 0
Halted == pc \in {"raising", "raised"}

\* ------------------------------------------------------------------- claims

\* C1: every image submitted to the build pool has an immediate upstream that
\* is an external root or an image whose build_image call returned in a
\* strictly earlier wave; so has every ancestor on its upstream chain.
C1_UpstreamBuiltEarlier ==
    \A n \in Nodes : Submitted(n) =>
        /\ \/ dep[n] \in external_images
           \/ dep[n] \in Nodes /\ okWave[dep[n]] > 0
                               /\ okWave[dep[n]] < submitWave[n]
        /\ \A a \in Ancestors(n) : okWave[a] > 0 /\ okWave[a] < submitWave[n]

C1_Witness ==
    \E n \in Nodes : Submitted(n) /\ dep[n] \in Nodes /\ dep[dep[n]] \in Nodes

\* C2: in a run in which no build_image call raises, no image of the graph is
\* submitted twice, and when run_mode_image returns every image of the graph
\* was submitted exactly once, for both values of stop_on_error.
C2_EachNodeOnce ==
    (\A m \in Nodes : failWave[m] = 0) =>
        /\ \A n \in Nodes : submitCount[n] <= 1
        /\ \A n \in Nodes \ GraphNodes : submitCount[n] = 0
        /\ pc = "done" => \A n \in GraphNodes : submitCount[n] = 1

C2_Witness ==
    /\ pc = "done"
    /\ stop_on_error
    /\ \A m \in Nodes : failWave[m] = 0
    /\ GraphNodes = Nodes
    /\ wave >= 2

\* C3: with stop_on_error = false, after build_image raised for an image no
\* transitive descendant of it is submitted in a later wave.
C3_FailedSubtreePruned ==
    ~stop_on_error =>
        \A n \in Nodes : failWave[n] > 0 =>
            \A d \in Descendants(n) :
                ~(Submitted(d) /\ submitWave[d] > failWave[n])

C3_Witness ==
    /\ ~stop_on_error
    /\ pc = "done"
    /\ \E n \in Nodes : /\ failWave[n] > 0
                        /\ \E d \in Descendants(n) \cap GraphNodes :
                              ~Submitted(d)

\* C4: with stop_on_error = false, when run_mode_image returns, every image
\* of the graph all of whose ancestors were built successfully was submitted
\* and its build_image call ran to its end, whatever failed elsewhere.
C4_UnrelatedSubtreeCompletes ==
    (~stop_on_error /\ pc = "done") =>
        \A n \in GraphNodes :
            (\A a \in Ancestors(n) : okWave[a] > 0) =>
                Submitted(n) /\ (okWave[n] > 0 \/ failWave[n] > 0)

C4_Witness ==
    /\ ~stop_on_error
    /\ pc = "done"
    /\ \E m, n \in Nodes : /\ failWave[m] > 0
                           /\ m \notin Chain(n)
                           /\ okWave[n] > failWave[m]

\* C5: with stop_on_error = true, once the coordinator has observed a failed
\* build_image call, run_mode_image is on its way out by the exception (it
\* cannot get stuck before raising) and no wave is submitted any more.
C5_StopOnErrorHalts ==
    /\ [](stop_on_error /\ failed_images # {} =>
            Halted /\ (pc = "raised" \/ ENABLED Next))
    /\ [][(stop_on_error /\ failed_images # {}) =>
            (Halted' /\ wave' = wave /\ submitCount' = submitCount)]_vars

C5_Witness ==
    /\ stop_on_error
    /\ pc = "raised"
    /\ \E n \in GraphNodes : ~Submitted(n)

\* C6: a build_image call for an image that the runtime reports as existing,
\* with force_build = false, calls docker_util.build zero times and writes no
\* file of the build context.
C6_ExistingImageNotRebuilt ==
    [][\A x \in DOMAIN futures :
          (futures[x] = "running" /\ futures'[x] # "running"
             /\ ~force_build /\ Exists(x.name)) =>
                /\ futures'[x] = "ok"
                /\ buildCalls' = buildCalls
                /\ ctxWrites' = ctxWrites
                /\ dockerImages' = dockerImages]_vars

C6_Witness ==
    \E x \in DOMAIN futures :
        /\ ~force_build /\ Exists(x.name)
        /\ futures[x] = "seen_ok"
        /\ buildCalls[x.name] = 0

\* C7: an image that lies on the dependency chains of two or more instances
\* is held once by the build graph, is never submitted twice, and was
\* submitted exactly once when run_mode_image returns unless one of its
\* ancestors failed; for every max_workers_build_image.
SharedBy(n) == {i \in 1..Len(instances) : n \in Chain(instances[i].leaf)}
GraphEntries(n) ==
    {<<k, x>> \in UNION {{k} \X images[k] : k \in DOMAIN images} : x.name = n}

C7_SharedNodeBuiltOnce ==
    \A n \in Nodes : Cardinality(SharedBy(n)) >= 2 =>
        /\ pc # "start" => Cardinality(GraphEntries(n)) = 1
        /\ submitCount[n] <= 1
        /\ (pc = "done" /\ \A a \in Ancestors(n) : failWave[a] = 0) =>
               submitCount[n] = 1

C7_Witness ==
    \E n \in Nodes :
        /\ Cardinality(SharedBy(n)) >= 2
        /\ dep[n] \in Nodes
        /\ max_workers_build_image = MaxWorkers
        /\ pc = "done"
        /\ submitCount[n] = 1

\* C8: when a report file exists for every instance at the start of a pass
\* of run_mode_instance_only, the pass invokes the container runtime zero
\* times.
C8_AllReportedNoRuntimeCall ==
    (\A i \in 1..Len(instances) : InstanceDir(instances[i]) \in reports0) =>
        /\ \A i \in DOMAIN runtimeCalls : runtimeCalls[i] = 0
        /\ IInStatus("phases") = {}

C8_Witness ==
    /\ Len(instances) = MaxInstances
    /\ \A i \in 1..Len(instances) : InstanceDir(instances[i]) \in reports0
    /\ ipc = "done"
    /\ pass = 1

C10_SkipLeavesFilesOriginal ==
    [][\A i \in DOMAIN ifutures :
          (ifutures[i] = "running" /\ ifutures'[i] # "running"
             /\ instances[i].id \in DOMAIN patches
             /\ InstanceDir(instances[i]) \in reports) =>
                /\ runtimeCalls' = runtimeCalls
                /\ reports' = reports
                /\ fixPatch' = fixPatch]_vars

\* C10 as amended: a run_instance call for an instance whose report exists
\* invokes nothing on the runtime and writes no report; of the files of the
\* instance it writes fix.patch alone, which it opens for writing and fills
\* with the fix patch of the instance's patch entry before it looks for the
\* report.
C10_SkipRewritesFixPatchOnly ==
    [][\A i \in DOMAIN ifutures :
          (ifutures[i] = "running" /\ ifutures'[i] # "running"
             /\ InstanceDir(instances[i]) \in reports) =>
                /\ ifutures'[i] \in {"ok", "raised"}
                /\ runtimeCalls' = runtimeCalls
                /\ reports' = reports
                /\ fixPatch' = [fixPatch EXCEPT ![InstanceDir(instances[i])] =
                                   IF instances[i].id \in DOMAIN patches
                                   THEN patches[instances[i].id]
                                   ELSE "empty"]]_vars

C10_Witness ==
    \E i \in DOMAIN ifutures :
        /\ pass = 1
        /\ InstanceDir(instances[i]) \in reports0
        /\ prior_patch = "old"
        /\ ifutures[i] = "ok"
        /\ fixPatch[InstanceDir(instances[i])] = "new"
        /\ runtimeCalls[i] = 0

\* C11: with stop_on_error false, run_mode_instance_only never raises; when it
\* returns every instance has run to its end, and failed_instances holds one
\* (id, message) pair for each instance whose run raised, with the message of
\* that instance's exception, and no pair for an instance that succeeded.
C11_ContinueCollectsEveryFailure ==
    ~stop_on_error =>
        /\ ipc \notin {"raising", "raised"}
        /\ \A i \in DOMAIN ifutures :
              LET pairs == {k \in 1..Len(failed_instances) :
                              failed_instances[k][1] = instances[i].id}
              IN  IF ifutures[i] = "seen_raised"
                  THEN /\ Cardinality(pairs) = 1
                       /\ ierror[i] \in {"KeyError", "RunError"}
                       /\ \A k \in pairs : failed_instances[k][2] = ierror[i]
                  ELSE pairs = {}
        /\ Len(failed_instances) = Cardinality(IInStatus("seen_raised"))
        /\ ipc = "done" =>
              /\ DOMAIN ifutures = 1..Len(instances)
              /\ IFinished = DOMAIN ifutures

C11_Witness ==
    /\ ~stop_on_error
    /\ ipc = "done"
    /\ pass = 1
    /\ \E i, j \in DOMAIN ifutures :
          /\ ifutures[i] = "seen_raised" /\ ierror[i] = "RunError"
          /\ ifutures[j] = "seen_ok"
          /\ failed_instances = <<(<<instances[i].id, "RunError">>)>>

\* C12 as claimed: with stop_on_error true, once the coordinator has observed
\* a failed build (a failed instance run) the error can leave run_mode_image
\* (run_mode_instance_only) at once, whatever tasks of the pool are in flight.
C12_RaiseWithoutWaiting ==
    /\ pc = "raising" => ENABLED RaiseOut
    /\ ipc = "raising" => ENABLED InstancesRaiseOut

\* C13: the next wave is computed and submitted only when every future of
\* the current wave has completed and was consumed: no build_image call of
\* the current wave is queued or executing when a wave is submitted, so the
\* calls of two waves never overlap.
C13_WavesSequential ==
    [][(wave' # wave \/ building_images' # building_images) =>
          \A x \in DOMAIN futures : futures[x] \in {"seen_ok", "seen_raised"}]_vars

C13_Witness ==
    /\ wave >= 2
    /\ InStatus("running") # {}
    /\ \E n \in Nodes : okWave[n] = wave - 1

\* C14: the build_image calls executing at one moment are at most
\* max_workers_build_image, the run_instance calls executing at one moment
\* are at most max_workers_run_instance; each bound is the size of its own
\* pool.
C14_PoolBounds ==
    /\ Cardinality(InStatus("running")) <= max_workers_build_image
    /\ Cardinality(IInStatus("running") \cup IInStatus("phases"))
          <= max_workers_run_instance

C14_Witness ==
    /\ max_workers_build_image < max_workers_run_instance
    /\ \E n, m \in Nodes : n # m /\ okWave[n] = 1 /\ okWave[m] = 1
    /\ Cardinality(IInStatus("running") \cup IInStatus("phases"))
          = max_workers_run_instance

\* C15: when the base commit of some selected instance is not among the
\* commit hashes of the local clone of its repository, check_commit_hashes
\* raises before the graph is constructed: no image is submitted or built and
\* no instance is run, whatever stop_on_error is.
C15_MissingCommitStopsRun ==
    (\E i \in 1..Len(instances) : base_sha[i] \notin local_commits[repo_of[i]]) =>
        /\ pc \in {"check", "check_raised"}
        /\ external_images = {} /\ images = << >>
        /\ wave = 0
        /\ \A n \in Nodes : submitCount[n] = 0 /\ buildCalls[n] = 0
                               /\ ctxWrites[n] = 0
        /\ ipc = "idle"
        /\ ifutures = << >>
        /\ \A i \in DOMAIN runtimeCalls : runtimeCalls[i] = 0

C15_Witness ==
    /\ pc = "check_raised"
    /\ ~stop_on_error
    /\ Len(instances) = MaxInstances
    /\ \A i \in 1..Len(instances) : base_sha[i] \notin local_commits[repo_of[i]]

\* C16 as claimed: when check_commit_hashes raises, every selected instance
\* whose base commit is absent from the local clone of its repository has an
\* error record of its own, naming its repository and its pull request
\* (stated for the repositories whose clone holds at least one commit).
C16_EveryOffenderReported ==
    pc = "check_raised" =>
        \A i \in 1..Len(instances) :
            (local_commits[repo_of[i]] # {}
               /\ base_sha[i] \notin local_commits[repo_of[i]]) =>
                  \E e \in commit_errors :
                      /\ e.repo = repo_of[i]
                      /\ e.pr = PrNumber(instances[i])

\* C17 as claimed: an instance whose dependency chain raises on resolution
\* is left out of the graph alone: while another instance resolves,
\* run_mode_image is not aborted, and the graph constructed is the graph of
\* the instances that resolve.
C17_ResolutionErrorIsolated ==
    /\ (\E i \in 1..Len(instances) : instances[i].id \notin unresolvable) =>
          pc # "graph_raised"
    /\ pc \in {"loop", "collect", "raising", "raised", "done"} =>
          LET g == GraphFrom(EmptyGraph,
                             SelectSeq(instances,
                                       LAMBDA inst : inst.id \notin unresolvable),
                             1)
          IN  external_images = g.external_images /\ images = g.images

\* C18: after graph construction images[x] holds exactly the images that lie
\* on the dependency chain of some instance and have x as immediate upstream,
\* external_images holds exactly the external references the chains end at,
\* and every member of external_images is a key of images.
C18_GraphIsTheChains ==
    pc \in {"loop", "collect", "raising", "raised", "done"} =>
        /\ \A x \in Names :
              {y.name : y \in IF x \in DOMAIN images THEN images[x] ELSE {}}
                 = {n \in GraphNodes : dep[n] = x}
        /\ \A x \in DOMAIN images :
              /\ images[x] # {}
              /\ \A y \in images[x] : IsImage(y) /\ Dependency(y).name = x
        /\ external_images = {dep[n] : n \in {m \in GraphNodes : dep[m] \in Externals}}
        /\ external_images \subseteq DOMAIN images

C18_Witness ==
    /\ pc = "done"
    /\ external_images # {}
    /\ \E x \in Nodes :
          /\ x \in DOMAIN images
          /\ Cardinality({y.name : y \in images[x]}) = 2
          /\ dep[x] \in external_images

\* C19: the first wave is the union of images[r] over the roots r, the wave
\* after wave k is the union of images[n] over the images n of wave k whose
\* build_image call returned, and the loop ends only when that union is
\* empty.  For dependencies 0 <- 1 <- {2, 3} the waves are {1} then {2, 3};
\* when the build of 1 fails nothing is built and neither 2 nor 3 is
\* submitted.
C19_WaveFormula ==
    LET Children(x) == IF x \in DOMAIN images
                       THEN {y.name : y \in images[x]} ELSE {}
        WaveNodes(w) == {n \in Nodes : submitCount[n] > 0 /\ submitWave[n] = w}
        After(w) == IF w = 0 THEN UNION {Children(r) : r \in external_images}
                    ELSE UNION {Children(n) :
                                  n \in {m \in WaveNodes(w) : okWave[m] = w}}
        scenario == /\ dep[1] = 0 /\ dep[2] = 1 /\ dep[3] = 1
                    /\ {instances[i].leaf : i \in 1..Len(instances)} = {2, 3}
    IN  /\ \A w \in 1..wave : WaveNodes(w) = After(w - 1)
        /\ pc = "loop" => {y.name : y \in building_images} = After(wave)
        /\ pc = "done" => After(wave) = {}
        /\ scenario =>
              /\ wave >= 1 => WaveNodes(1) = {1}
              /\ wave >= 2 => WaveNodes(2) = {2, 3}
              /\ wave <= 2
              /\ failWave[1] > 0 =>
                    /\ wave = 1
                    /\ \A n \in Nodes : okWave[n] = 0
                    /\ submitCount[2] = 0 /\ submitCount[3] = 0

C19_Witness ==
    /\ dep[1] = 0 /\ dep[2] = 1 /\ dep[3] = 1
    /\ {instances[i].leaf : i \in 1..Len(instances)} = {2, 3}
    /\ pc = "done"
    /\ wave = 2
    /\ okWave[1] = 1 /\ okWave[2] = 2 /\ okWave[3] = 2

\* C20 as claimed: every instance run_mode_instance_only submits has an image
\* whose build_image call returned (built, or found existing) in the build
\* pass before it.
C20_OnlyBuiltImagesRun ==
    \A i \in DOMAIN ifutures : okWave[instances[i].leaf] > 0

\* C21: when a build_image call or a run_instance call has raised, run() ends
\* with sys.exit(1) if stop_on_error is true and returns normally if it is
\* false; run() never exits with sys.exit(1) when stop_on_error is false, and
\* with stop_on_error false a build failure leaves the instance runner free
\* to start.
C21_AbortIffStopOnError ==
    LET failure == \/ \E n \in Nodes : failWave[n] > 0
                   \/ \E i \in DOMAIN ifutures :
                         ifutures[i] \in {"raised", "seen_raised"}
    IN  /\ outcome = "exit_1" => stop_on_error
        /\ (failure /\ outcome # "running") =>
              outcome = IF stop_on_error THEN "exit_1" ELSE "returned"
        /\ (~stop_on_error /\ pc = "done" /\ ipc = "idle"
              /\ \E n \in Nodes : failWave[n] > 0) => ENABLED EnterInstanceRunner

C21_Witness ==
    /\ ~stop_on_error
    /\ outcome = "returned"
    /\ \E n \in Nodes : failWave[n] > 0
    /\ \E i \in DOMAIN ifutures : ifutures[i] = "seen_raised"
    /\ \E i \in DOMAIN ifutures : ifutures[i] = "seen_ok"

\* C24 as claimed: run() executes the stages of its mode only: with mode
\* "image" no instance is submitted to the instance runner, with mode
\* "instance_only" no image is submitted to the build pool.
C24_ModeSelectsStages ==
    /\ mode = "image" => ipc = "idle" /\ ifutures = << >>
    /\ mode = "instance_only" =>
          wave = 0 /\ \A n \in Nodes : submitCount[n] = 0 /\ buildCalls[n] = 0

C23_DistinctInstanceDirs ==
    ipc # "load" =>
        /\ \A i, j \in 1..Len(instances) :
              i # j => InstanceDir(instances[i]) # InstanceDir(instances[j])
        /\ DOMAIN ifutures \subseteq 1..Len(instances)

C23_Witness ==
    /\ Len(dataset_lines) > Len(instances)
    /\ Cardinality(IInStatus("running")) >= 2

\* C25: for finitely many instances with finite acyclic dependency chains,
\* graph construction ends and the wave loop ends when every build_image
\* call returns or raises: the loops over the instances and their chains
\* yield a finite graph, until run_mode_image has returned or raised the
\* coordinator can take a step or a worker has a call to start or to end,
\* and every step lowers a natural number (six
\* times the images not yet submitted, plus the steps left to the futures
\* of the wave, plus the rank of the coordinator's position); the loop is
\* left with building_images empty.
C25_WaveLoopTerminates ==
    /\ [](/\ pc = "start" =>
                LET g == GraphFrom(EmptyGraph, instances, 1)
                IN  /\ DOMAIN g.images \subseteq Names
                    /\ \A x \in DOMAIN g.images : IsFiniteSet(g.images[x])
          /\ pc = "loop" => ENABLED SubmitWave \/ ENABLED LoopExit
          /\ pc \in {"collect", "raising"} =>
                \/ InStatus("running") # {}
                \/ /\ InStatus("pending") # {}
                   /\ Cardinality(InStatus("running")) < max_workers_build_image
                \/ ENABLED (\E x \in DOMAIN futures : Observe(x))
                \/ ENABLED WaveEnd
                \/ ENABLED RaiseOut)
    /\ [](pc = "done" => building_images = {})
    /\ [][LET Left(f) == IF f = "pending" THEN 3
                         ELSE IF f = "running" THEN 2
                         ELSE IF f \in {"ok", "raised"} THEN 1 ELSE 0
              RECURSIVE Sum(_, _)
              Sum(fs, S) == IF S = {} THEN 0
                            ELSE LET x == CHOOSE y \in S : TRUE
                                 IN  Left(fs[x]) + Sum(fs, S \ {x})
              Rank(p) == IF p = "start" THEN 5
                         ELSE IF p = "collect" THEN 3
                         ELSE IF p = "raising" THEN 2
                         ELSE IF p = "loop" THEN 1 ELSE 0
              Measure(sc, fs, p) ==
                  6 * Cardinality({n \in Nodes : sc[n] = 0})
                    + Sum(fs, DOMAIN fs) + Rank(p)
          IN  Measure(submitCount', futures', pc')
                < Measure(submitCount, futures, pc)]_vars

C25_Witness ==
    /\ pc = "done"
    /\ wave = MaxImages
    /\ building_images = {}
    /\ \A n \in Nodes : okWave[n] = n


\* C26 as claimed: with stop_on_error, once the coordinator has observed the
\* first failure of a pool (it is about to shut the pool down and raise), no
\* task of that pool that was still queued starts executing.
C26_NoStartAfterFailureSeen ==
    [][/\ pc = "raising" =>
             \A x \in DOMAIN futures :
                 futures[x] = "pending" => futures'[x] = "pending"
       /\ ipc = "raising" =>
             \A i \in DOMAIN ifutures :
                 ifutures[i] = "pending" => ifutures'[i] = "pending"]_vars


\* ---------------------------------------------------- graph construction only

\* self.instances in any order, an instance possibly listed more than once.
InstanceOrders ==
    UNION {[1..k -> {InstanceCreate(n) : n \in Nodes}] : k \in 0..MaxImages}

InitGraph ==
    /\ InitCommon
    /\ ~stop_on_error
    /\ pc = "start"
    /\ dep \in DepFunctions
    /\ instances \in InstanceOrders
    /\ force_build = FALSE
    /\ max_workers_build_image = 1
    /\ dockerImages = {}
    /\ RunnerIdle
    /\ PreflightPassed
    /\ ProgramDefaults

NextGraph == ConstructGraph

SpecGraph == InitGraph /\ [][NextGraph]_vars

\* the full names of the members of a set of Image objects
ImageNames(S) == {x.name : x \in S}

\* C27: the graph built from an instance list is the graph built from the
\* set of its instances (listed once each, in ascending order): the same
\* external names, the same keys of images and, under each key, Image objects
\* of the same full names; so it is the same for every order of the list and
\* when an instance is listed twice.
C27_GraphOfInstanceSet ==
    pc = "loop" =>
        LET S == {instances[i].leaf : i \in 1..Len(instances)}
            g == GraphFrom(EmptyGraph, InstanceList(S), 1)
        IN  /\ external_images = g.external_images
            /\ DOMAIN images = DOMAIN g.images
            /\ \A k \in DOMAIN images :
                   ImageNames(images[k]) = ImageNames(g.images[k])

C27_Witness ==
    /\ pc = "loop"
    /\ Len(instances) = 3
    /\ instances[1] = instances[3]
    /\ instances[1].leaf > instances[2].leaf
    /\ \E k \in DOMAIN images : Cardinality(images[k]) > 1
    /\ \E k \in DOMAIN images : k \in Nodes


\* C28: without stop_on_error, when run_mode_image has returned, build_image
\* was called for exactly the images of the graph none of whose ancestors'
\* builds failed: a set fixed by the graph and by the builds that
\* fail, whatever max_workers_build_image is and in whatever order the builds
\* of a wave end; each of them was called once.
C28_CalledSetFromGraphAndFailures ==
    (~stop_on_error /\ pc = "done") =>
        \A n \in Nodes :
            /\ Submitted(n) <=>
                  /\ n \in GraphNodes
                  /\ \A a \in Ancestors(n) : failWave[a] = 0
            /\ Submitted(n) =>
                  /\ submitCount[n] = 1
                  /\ (okWave[n] > 0) # (failWave[n] > 0)

C28_Witness ==
    /\ ~stop_on_error
    /\ pc = "done"
    /\ max_workers_build_image = MaxWorkers
    /\ \E n, m \in Nodes :
          /\ failWave[n] > 0
          /\ okWave[m] > 0
          /\ submitWave[n] = submitWave[m]
          /\ \E d \in Descendants(n) \cap GraphNodes : ~Submitted(d)


\* ------------------------------------------------- build_image, called again

\* build_image(image) is called directly, as every run of the program over
\* the same graph calls it again; a node is built at most MaxPasses times.
BuildImageCall(n, ok) ==
    /\ buildCalls[n] < MaxPasses
    /\ BuildImage(n, ok)
    /\ UNCHANGED runnerVars
    /\ UNCHANGED preflightVars
    /\ UNCHANGED programVars
    /\ UNCHANGED <<inputs, graph, pc, building_images, failed_images,
                   futures, history, okWave, failWave>>

InitBuild ==
    /\ InitCommon
    /\ pc = "start"
    /\ dep \in DepFunctions
    /\ instances \in {InstanceList(S) : S \in SUBSET Nodes}
    /\ force_build \in BOOLEAN
    /\ max_workers_build_image = 1
    /\ dockerImages \in {{}, {FullRef(n) : n \in {m \in Nodes : dep[m] \in Externals}}}
    /\ RunnerIdle
    /\ PreflightPassed
    /\ ProgramDefaults

NextBuild == \E n \in Nodes, ok \in BOOLEAN : BuildImageCall(n, ok)

SpecBuild == InitBuild /\ [][NextBuild]_vars

\* C29 as claimed: without force_build, once build_image has built a node
\* (the image of its build is in the runtime), a further build_image call for
\* the node finds the image and performs no build call.
C29_SecondCallBuildsNothing ==
    [][\A n \in Nodes :
          (~force_build /\ V1Ref(n) \in dockerImages) =>
              buildCalls'[n] = buildCalls[n]]_vars


\* C30 as claimed: when an image with an internal upstream is submitted for
\* building, the reference its Dockerfile names as base is in the runtime: it
\* is the reference under which the upstream was built in the earlier wave.
C30_BaseReferenceAvailable ==
    \A n \in Nodes :
        (Submitted(n) /\ dep[n] \in Nodes) => DockerfileBase(n) \in dockerImages


\* C31: once the graph is built no step changes images or external_images;
\* a step of a build_image worker (its future starts running, or ends) leaves
\* the graph, building_images, failed_images and the coordinator's position
\* alone and changes no other worker's future; failed_images changes only in
\* a step of the coordinator: it is emptied when a wave is submitted and
\* grows when the coordinator consumes a future that raised.
C31_WorkersShareNothing ==
    [][LET started == {x \in DOMAIN futures : futures[x] = "pending"
                         /\ x \in DOMAIN futures' /\ futures'[x] = "running"}
           ended == {x \in DOMAIN futures : futures[x] = "running"
                         /\ x \in DOMAIN futures'
                         /\ futures'[x] \in {"ok", "raised"}}
           consumed == {x \in DOMAIN futures : futures[x] = "raised"
                         /\ x \in DOMAIN futures'
                         /\ futures'[x] = "seen_raised"}
       IN  /\ pc # "start" =>
                 images' = images /\ external_images' = external_images
           /\ started \cup ended # {} =>
                 /\ UNCHANGED <<images, external_images, building_images,
                                failed_images, pc, wave, submitCount>>
                 /\ Cardinality(started \cup ended) = 1
                 /\ \A y \in DOMAIN futures \ (started \cup ended) :
                        futures'[y] = futures[y]
           /\ failed_images' # failed_images =>
                 \/ pc = "loop" /\ pc' = "collect" /\ failed_images' = {}
                 \/ /\ pc = "collect"
                    /\ \E x \in consumed : failed_images' = SetAdd(failed_images, x)]_vars

C31_Witness ==
    /\ pc = "collect"
    /\ failed_images # {}
    /\ InStatus("running") # {}
    /\ InStatus("ok") # {}


\* ------------------------------------------- instances selected by patches

\* the pull requests 1 and 2 of one repository and pull request 1 of another
SelectIds == {1, 2, OtherRepo(1)}

\* The dataset files hold up to two records, the patch files the patches of
\* some of the pull requests.
InitSelect ==
    /\ InitCommon
    /\ pc = "done"
    /\ dep = [n \in Nodes |-> 0]
    /\ instances = << >>
    /\ force_build = FALSE
    /\ max_workers_build_image = 1
    /\ dockerImages = {}
    /\ max_workers_run_instance = 1
    /\ patches \in UNION {[S -> {"new"}] : S \in SUBSET SelectIds}
    /\ prior_patch = "new"
    /\ reports = {}
    /\ reports0 = {}
    /\ persisted = {}
    /\ fixPatch = [d \in SelectIds |-> "absent"]
    /\ ipc = "load"
    /\ ifutures = << >>
    /\ failed_instances = << >>
    /\ pass = 1
    /\ runtimeCalls = << >>
    /\ ierror = << >>
    /\ phaseLog = << >>
    /\ PreflightPassed
    /\ mode = "instance"
    /\ dataset_lines \in UNION {[1..k -> SelectIds] : k \in 0..2}
    /\ fail_phase = 1
    /\ outcome = "running"
    /\ ToolsIdle

SpecSelect == InitSelect /\ [][NextLoad]_vars

\* C32 as claimed: every instance selected for running has a patch stored
\* under its own id, and the lookup self.patches[instance.pr.id] of
\* run_instance raises for no selected instance.
C32_SelectedHavePatch ==
    ipc # "load" =>
        \A i \in 1..Len(instances) :
            /\ instances[i].id \in DOMAIN patches
            /\ i \in DOMAIN ierror => ierror[i] # "KeyError"


\* ------------------------------------------------- functions run on their own

\* The scheduler and the instance runner are not running.
ProgramIdle ==
    /\ InitCommon
    /\ stop_on_error = FALSE
    /\ pc = "done"
    /\ dep = [n \in Nodes |-> 0]
    /\ instances = << >>
    /\ force_build = FALSE
    /\ max_workers_build_image = 1
    /\ dockerImages = {}
    /\ RunnerIdle
    /\ PreflightPassed
    /\ mode = "instance"
    /\ dataset_lines = << >>
    /\ fail_phase = 1
    /\ outcome = "running"

notTools == <<imageVars, runnerVars, preflightVars, instances, stop_on_error,
              mode, dataset_lines, fail_phase, outcome>>

\* ------------------------------------------------- check_specific, check_skip

MaxLen == 2

\* strings are sequences of letters; ids, specifics and skips are not empty
Letters == {"a", "b"}
Strings == UNION {[1..k -> Letters] : k \in 1..MaxLen}

\* Python's a in b for strings
IsSubstring(a, b) ==
    \E i \in 0..(Len(b) - Len(a)) : SubSeq(b, i + 1, i + Len(a)) = a

\* lines 519-524
check_specific(name) ==
    ~(/\ selection.specifics # {}
      /\ ~\E specific \in selection.specifics :
             IsSubstring(name, specific) \/ IsSubstring(specific, name))

\* lines 526-529
check_skip(name) ==
    /\ selection.skips # {}
    /\ \E skip \in selection.skips :
           IsSubstring(name, skip) \/ IsSubstring(skip, name)

\* lines 409-420: the records of the dataset files that pass both filters are
\* stored under their id.
LoadDataset ==
    /\ selection.pc = "start"
    /\ selection' =
          [selection EXCEPT
              !.pc = "loaded",
              !.dataset = DatasetKeys(SelectSeq(selection.lines,
                             LAMBDA id : check_specific(id) /\ ~check_skip(id)))]
    /\ UNCHANGED <<sandbox, parsing>>
    /\ UNCHANGED notTools

InitFilter ==
    /\ ProgramIdle
    /\ sandbox = [pc |-> "idle"]
    /\ parsing = [pc |-> "idle"]
    /\ selection \in [pc : {"start"},
                      specifics : {S \in SUBSET Strings : Cardinality(S) <= 1},
                      skips : {S \in SUBSET Strings : Cardinality(S) <= 1},
                      lines : UNION {[1..k -> Strings] : k \in 1..2},
                      dataset : {<< >>}]

NextFilter == LoadDataset

SpecFilter == InitFilter /\ [][NextFilter]_vars

\* C33 as claimed: a task of the dataset files is loaded iff specifics is
\* empty or some specifics string is a substring of its id, and no skips
\* string is a substring of its id.
C33_LoadedIffSubstring ==
    selection.pc = "loaded" =>
        \A k \in 1..Len(selection.lines) :
            LET id == selection.lines[k]
            IN  (\E j \in 1..Len(selection.dataset) : selection.dataset[j] = id)
                <=> /\ \/ selection.specifics = {}
                       \/ \E s \in selection.specifics : IsSubstring(s, id)
                    /\ ~\E s \in selection.skips : IsSubstring(s, id)


\* ------------------------------------------------------------ apptainer_util

SandboxDir == "apptainer_sandbox"
RunBaseFile == "apptainer_base.sif"
SifNames == {RunBaseFile, "image.sif"}

\* pull_build: the position after a step that succeeded (ok) or that returned
\* a non-zero code or raised (~ok).
AfterStepMutIgnoreCode(step, ok, g2) ==
    CASE step = "remove" -> "pull"
      [] step = "pull" -> "build"
      [] step = "build" -> IF g2 THEN "mkdir" ELSE "copy"
      [] step = "mkdir" -> "copy"
      [] step = "copy" -> "prepare"
      [] step = "prepare" -> "built"
AfterStep(step, ok, g2) ==
    IF ~ok THEN "pull_build_raised"
    ELSE CASE step = "remove" -> "pull"
           [] step = "pull" -> "build"
           [] step = "build" -> IF g2 THEN "mkdir" ELSE "copy"
           [] step = "mkdir" -> "copy"
           [] step = "copy" -> "prepare"
           [] step = "prepare" -> "built"

\* a step of pull_build ends and leaves the files fs in image_dir
StepDone(step, ok, fs) ==
    /\ sandbox' = [sandbox EXCEPT
                      !.pc = AfterStep(step, ok, sandbox.g2),
                      !.steps = Append(@, [name |-> step, ok |-> ok]),
                      !.files = fs]
    /\ UNCHANGED <<selection, parsing>>
    /\ UNCHANGED notTools

\* lines 8-14, 21-23: check_files_exist
CheckFilesExist ==
    /\ sandbox.pc = "remove"
    /\ StepDone("remove", TRUE, sandbox.files \ {SandboxDir, sandbox.sif_name})

\* lines 32-41: apptainer pull sif_name docker://image_full_name
Pull(ok) ==
    /\ sandbox.pc = "pull"
    /\ StepDone("pull", ok, IF ok THEN sandbox.files \cup {sandbox.sif_name}
                            ELSE sandbox.files)

\* lines 45-54: apptainer build --sandbox apptainer_sandbox sif_name
BuildSandbox(ok) ==
    /\ sandbox.pc = "build"
    /\ StepDone("build", ok, IF ok THEN sandbox.files \cup {SandboxDir}
                             ELSE sandbox.files)

\* lines 56-68
Mkdir(ok) ==
    /\ sandbox.pc = "mkdir"
    /\ StepDone("mkdir", ok, sandbox.files)

\* lines 72-73: shutil.copy of every file
CopyFiles(ok) ==
    /\ sandbox.pc = "copy"
    /\ StepDone("copy", ok, sandbox.files)

\* lines 79-89: bash home/prepare.sh
Prepare(ok) ==
    /\ sandbox.pc = "prepare"
    /\ StepDone("prepare", ok, sandbox.files)

IsWarning(line) == line = "WARNING: w"
ExitCodeNote == "Process returned non-zero exit code"

\* lines 112-124: the text of the output file
OutputFile(output, res) ==
    SelectSeq(output, LAMBDA l : ~IsWarning(l))
        \o SelectSeq(output, IsWarning)
        \o (IF res = "nonzero" THEN <<ExitCodeNote>> ELSE << >>)

\* lines 131-146: the finally block of run; logger.info of a logger that is
\* None raises, and so does the logger.error of the except branch.
FinallyRaises(fs, logger) ==
    logger = "none" /\ (RunBaseFile \in fs \/ SandboxDir \in fs)

FinallyFiles(fs, logger) ==
    IF RunBaseFile \in fs
    THEN IF logger = "none" THEN fs \ {RunBaseFile}
         ELSE fs \ {RunBaseFile, SandboxDir}
    ELSE fs \ {SandboxDir}

\* lines 95-146: run(image_dir, run_command, output_path, logger) after a
\* pull_build that returned; the command exits with zero, with non-zero, or
\* subprocess.run raises.
Run(res, output) ==
    /\ sandbox.pc = "built"
    /\ sandbox' =
          [sandbox EXCEPT
              !.pc = IF res = "raises" \/ FinallyRaises(sandbox.files, sandbox.logger)
                     THEN "run_raised" ELSE "run_returned",
              !.res = res,
              !.output = output,
              !.out_file = IF res # "raises" /\ sandbox.output_path
                           THEN OutputFile(output, res) ELSE @,
              !.files = FinallyFiles(sandbox.files, sandbox.logger)]
    /\ UNCHANGED <<selection, parsing>>
    /\ UNCHANGED notTools

Outputs == UNION {[1..k -> {"out", "WARNING: w"}] : k \in 0..2}

InitSandbox ==
    /\ ProgramIdle
    /\ selection = [pc |-> "idle"]
    /\ parsing = [pc |-> "idle"]
    /\ sandbox \in [pc : {"remove"},
                    sif_name : SifNames,
                    g2 : BOOLEAN,
                    logger : {"given", "none"},
                    output_path : BOOLEAN,
                    files : SUBSET {SandboxDir, RunBaseFile},
                    steps : {<< >>},
                    res : {"none"},
                    output : {<< >>},
                    out_file : {<<"absent">>}]

NextSandbox ==
    \/ CheckFilesExist
    \/ \E ok \in BOOLEAN : Pull(ok)
    \/ \E ok \in BOOLEAN : BuildSandbox(ok)
    \/ \E ok \in BOOLEAN : Mkdir(ok)
    \/ \E ok \in BOOLEAN : CopyFiles(ok)
    \/ \E ok \in BOOLEAN : Prepare(ok)
    \/ \E res \in {"zero", "nonzero", "raises"}, output \in Outputs :
          Run(res, output)

SpecSandbox == InitSandbox /\ [][NextSandbox]_vars

\* C34: the steps pull_build has executed are an initial part of remove,
\* pull, build, mkdir (with g2 only), copy, prepare; every step but the last
\* executed one succeeded; pull_build has raised exactly when the last
\* executed step failed, and it has returned only after prepare.
C34_PullBuildStepOrder ==
    sandbox.pc # "idle" =>
        LET order == <<"remove", "pull", "build">>
                        \o (IF sandbox.g2 THEN <<"mkdir">> ELSE << >>)
                        \o <<"copy", "prepare">>
            steps == sandbox.steps
            n == Len(steps)
        IN  /\ n <= Len(order)
            /\ \A k \in 1..n : steps[k].name = order[k]
            /\ \A k \in 1..(n - 1) : steps[k].ok
            /\ (sandbox.pc = "pull_build_raised") <=> (n > 0 /\ ~steps[n].ok)
            /\ sandbox.pc \in {"built", "run_returned", "run_raised"} =>
                  n = Len(order) /\ steps[n].ok
            /\ sandbox.pc \notin {"pull_build_raised", "built", "run_returned",
                                  "run_raised"} =>
                  n < Len(order) /\ sandbox.pc = order[n + 1]

C34_Witness ==
    /\ sandbox.pc = "pull_build_raised"
    /\ sandbox.g2
    /\ Len(sandbox.steps) = 4
    /\ sandbox.steps[4].name = "mkdir"


\* C35 as claimed, for the calls that pass a logger: when run has returned
\* or raised, the sandbox directory and the base image file pull_build
\* created in image_dir are gone.
C35_RunRemovesSandboxAndBase ==
    (sandbox.pc \in {"run_returned", "run_raised"}
        /\ sandbox.logger = "given") =>
        /\ SandboxDir \notin sandbox.files
        /\ sandbox.sif_name \notin sandbox.files

\* C36 as claimed: when the command exits with a non-zero code run does not
\* raise: it returns the captured output, and with an output path the note
\* of the exit code is the last text of the output file.
C36_NonZeroExitReturns ==
    sandbox.pc \in {"run_returned", "run_raised"} /\ sandbox.res = "nonzero" =>
        /\ sandbox.pc = "run_returned"
        /\ sandbox.output_path =>
              sandbox.out_file[Len(sandbox.out_file)] = ExitCodeNote


\* ----------------------------------------------------------------- parse_log

MaxLog == 3

\* A log is a sequence of lines; a line is what the patterns of the parser
\* find in it: nothing ("other"), or a test name with what the line reports.
TestNames == {"t1", "t2"}
OtherLine == [kind |-> "other"]

\* moto_5_0_21: lines matching test_result_pattern
MotoLines ==
    {OtherLine} \cup [kind : {"result"}, name : TestNames,
                      status : {"PASSED", "FAILED", "SKIPPED"}]

\* conan_1_26_1: lines matching test_line_pattern or summary_pattern
ConanLines ==
    {OtherLine}
    \cup [kind : {"test"}, name : TestNames,
          status : {"ok", "FAIL", "ERROR", "skipped"}]
    \cup [kind : {"summary"}, name : TestNames]

\* pydantic_v2_0a4: lines matching test_result_line, summary_line (the
\* characters of the stripped line, the first of them one of . s F) or
\* table_line with a tests/ file and a test_ name
PydanticLines ==
    {OtherLine}
    \cup [kind : {"name"}, name : TestNames]
    \cup [kind : {"chars"},
          chars : {<<".">>, <<"s">>, <<"F">>, <<".", "F">>, <<"F", ".">>,
                   <<".", " ">>}]
    \cup [kind : {"table"}, name : TestNames]

\* test_status[test_name] = status
DictSetMutKeepFirst(d, key, value) ==
    IF key \in DOMAIN d THEN d
    ELSE [x \in DOMAIN d \cup {key} |-> IF x = key THEN value ELSE d[x]]
DictSet(d, key, value) ==
    [x \in DOMAIN d \cup {key} |-> IF x = key THEN value ELSE d[x]]

\* moto_5_0_21.py lines 196-203: the loop over log.splitlines()
RECURSIVE MotoStatus(_, _, _)
MotoStatus(test_status, log, k) ==
    IF k > Len(log) THEN test_status
    ELSE MotoStatus(IF log[k].kind = "result"
                    THEN DictSet(test_status, log[k].name, log[k].status)
                    ELSE test_status,
                    log, k + 1)

TestResult(passed, failed, skipped) ==
    [passed_tests |-> passed, failed_tests |-> failed,
     skipped_tests |-> skipped, passed_count |-> Cardinality(passed),
     failed_count |-> Cardinality(failed),
     skipped_count |-> Cardinality(skipped)]

\* moto_5_0_21.py lines 186-227
MotoParseLog(log) ==
    LET test_status == MotoStatus(<< >>, log, 1)
    IN  TestResult({n \in DOMAIN test_status : test_status[n] = "PASSED"},
                   {n \in DOMAIN test_status : test_status[n] = "FAILED"},
                   {n \in DOMAIN test_status : test_status[n] = "SKIPPED"})

\* passed_tests -= failed_tests, skipped_tests -= failed_tests
DiscardMutKeep(tests, failed_tests) == tests
Discard(tests, failed_tests) == tests \ failed_tests

\* conan_1_26_1.py lines 241-288
ConanParseLog(log) ==
    LET tests(S) == {log[k].name : k \in {j \in 1..Len(log) :
                        log[j].kind = "test" /\ log[j].status \in S}}
        summary_failures == {log[k].name : k \in {j \in 1..Len(log) :
                                log[j].kind = "summary"}}
        failed_tests == tests({"FAIL", "ERROR"}) \cup summary_failures
    IN  TestResult(Discard(tests({"ok"}), failed_tests),
                   failed_tests,
                   Discard(tests({"skipped"}), failed_tests))

\* pydantic_v2_0a4.py lines 204-215: the characters of a summary line each
\* take the first name of the queue
RECURSIVE ConsumeChars(_, _, _)
ConsumeChars(st, chars, i) ==
    IF i > Len(chars) \/ st.test_name_queue = << >> THEN st
    ELSE LET test == Head(st.test_name_queue)
             popped == [st EXCEPT !.test_name_queue = Tail(@)]
         IN  ConsumeChars(
                 CASE chars[i] = "." ->
                          [popped EXCEPT !.passed_tests = @ \cup {test}]
                   [] chars[i] = "s" ->
                          [popped EXCEPT !.skipped_tests = @ \cup {test}]
                   [] chars[i] = "F" ->
                          [popped EXCEPT !.failed_tests = @ \cup {test}]
                   [] OTHER -> popped,
                 chars, i + 1)

\* pydantic_v2_0a4.py lines 194-221: the loop over the lines
RECURSIVE PydanticLoop(_, _, _)
PydanticLoop(st, log, k) ==
    IF k > Len(log) THEN st
    ELSE PydanticLoop(
             CASE log[k].kind = "name" ->
                      [st EXCEPT !.test_name_queue = Append(@, log[k].name)]
               [] log[k].kind = "chars" -> ConsumeChars(st, log[k].chars, 1)
               [] log[k].kind = "table" ->
                      [st EXCEPT !.failed_tests = @ \cup {log[k].name}]
               [] OTHER -> st,
             log, k + 1)

\* pydantic_v2_0a4.py lines 177-238
PydanticParseLog(log) ==
    LET st == PydanticLoop([test_name_queue |-> << >>, passed_tests |-> {},
                            failed_tests |-> {}, skipped_tests |-> {}],
                           log, 1)
    IN  TestResult(Discard(st.passed_tests, st.failed_tests),
                   st.failed_tests,
                   Discard(st.skipped_tests, st.failed_tests))

\* what the loop of the pydantic parser collected before the subtraction
PydanticCollected(log) ==
    PydanticLoop([test_name_queue |-> << >>, passed_tests |-> {},
                  failed_tests |-> {}, skipped_tests |-> {}], log, 1)

ParseMoto ==
    /\ parsing.pc = "start" /\ parsing.parser = "moto"
    /\ parsing' = [parsing EXCEPT !.pc = "parsed",
                                  !.result = MotoParseLog(parsing.log)]
    /\ UNCHANGED <<selection, sandbox>>
    /\ UNCHANGED notTools

ParseConan ==
    /\ parsing.pc = "start" /\ parsing.parser = "conan"
    /\ parsing' = [parsing EXCEPT !.pc = "parsed",
                                  !.result = ConanParseLog(parsing.log)]
    /\ UNCHANGED <<selection, sandbox>>
    /\ UNCHANGED notTools

ParsePydantic ==
    /\ parsing.pc = "start" /\ parsing.parser = "pydantic"
    /\ parsing' = [parsing EXCEPT !.pc = "parsed",
                                  !.result = PydanticParseLog(parsing.log)]
    /\ UNCHANGED <<selection, sandbox>>
    /\ UNCHANGED notTools

LogsOf(lines) == UNION {[1..k -> lines] : k \in 0..MaxLog}

InitParse ==
    /\ ProgramIdle
    /\ selection = [pc |-> "idle"]
    /\ sandbox = [pc |-> "idle"]
    /\ parsing \in [pc : {"start"}, parser : {"moto"}, log : LogsOf(MotoLines),
                    result : {"none"}]
                   \cup [pc : {"start"}, parser : {"conan"},
                         log : LogsOf(ConanLines), result : {"none"}]
                   \cup [pc : {"start"}, parser : {"pydantic"},
                         log : LogsOf(PydanticLines), result : {"none"}]

NextParse == ParseMoto \/ ParseConan \/ ParsePydantic

SpecParse == InitParse /\ [][NextParse]_vars

\* C37: the moto_5_0_21 parser puts every test name with a result line in
\* exactly one of the three sets, the set of the status on its last result
\* line, and no other name in any; the sets are pairwise disjoint and the
\* counts are their sizes.
C37_MotoLastStatusWins ==
    (parsing.pc = "parsed" /\ parsing.parser = "moto") =>
        LET log == parsing.log
            r == parsing.result
            lines(n) == {k \in 1..Len(log) :
                            log[k].kind = "result" /\ log[k].name = n}
            last(n) == CHOOSE k \in lines(n) : \A j \in lines(n) : j <= k
            setOf(status) == CASE status = "PASSED" -> r.passed_tests
                               [] status = "FAILED" -> r.failed_tests
                               [] status = "SKIPPED" -> r.skipped_tests
        IN  /\ \A n \in TestNames :
                 IF lines(n) = {}
                 THEN n \notin r.passed_tests \cup r.failed_tests
                                 \cup r.skipped_tests
                 ELSE \A status \in {"PASSED", "FAILED", "SKIPPED"} :
                          n \in setOf(status) <=> log[last(n)].status = status
            /\ r.passed_tests \cap r.failed_tests = {}
            /\ r.passed_tests \cap r.skipped_tests = {}
            /\ r.failed_tests \cap r.skipped_tests = {}
            /\ r.passed_count = Cardinality(r.passed_tests)
            /\ r.failed_count = Cardinality(r.failed_tests)
            /\ r.skipped_count = Cardinality(r.skipped_tests)

C37_Witness ==
    /\ parsing.pc = "parsed" /\ parsing.parser = "moto"
    /\ Len(parsing.log) = 3
    /\ parsing.log[1] = [kind |-> "result", name |-> "t1", status |-> "FAILED"]
    /\ parsing.log[2] = [kind |-> "result", name |-> "t2", status |-> "SKIPPED"]
    /\ parsing.log[3] = [kind |-> "result", name |-> "t1", status |-> "PASSED"]
    /\ parsing.result.passed_tests = {"t1"}
    /\ parsing.result.failed_count = 0

\* C38: in the conan_1_26_1 and pydantic_v2_0a4 parsers a test name the log
\* reports as failed (conan: a test line with FAIL or ERROR or a summary line;
\* pydantic: an F of a summary line taken for the name, or a table line) is
\* in failed_tests and in neither passed_tests nor skipped_tests, wherever
\* the lines that report it passed or skipped stand.
C38_FailureOverrides ==
    (parsing.pc = "parsed" /\ parsing.parser \in {"conan", "pydantic"}) =>
        LET log == parsing.log
            r == parsing.result
            reported ==
                IF parsing.parser = "conan"
                THEN {n \in TestNames : \E k \in 1..Len(log) :
                         \/ /\ log[k].kind = "test" /\ log[k].name = n
                            /\ log[k].status \in {"FAIL", "ERROR"}
                         \/ log[k].kind = "summary" /\ log[k].name = n}
                ELSE PydanticCollected(log).failed_tests
        IN  /\ parsing.parser = "pydantic" =>
                 \A k \in 1..Len(log) :
                     log[k].kind = "table" => log[k].name \in reported
            /\ \A n \in reported :
                 /\ n \in r.failed_tests
                 /\ n \notin r.passed_tests
                 /\ n \notin r.skipped_tests

C38_Witness ==
    /\ parsing.pc = "parsed"
    /\ \/ /\ parsing.parser = "conan"
          /\ parsing.log = <<[kind |-> "test", name |-> "t1", status |-> "FAIL"],
                             [kind |-> "test", name |-> "t1", status |-> "ok"],
                             [kind |-> "test", name |-> "t2", status |-> "ok"]>>
       \/ /\ parsing.parser = "pydantic"
          /\ parsing.log = <<[kind |-> "table", name |-> "t1"],
                             [kind |-> "name", name |-> "t1"],
                             [kind |-> "chars", chars |-> <<".">>]>>
    /\ parsing.result.failed_tests = {"t1"}
    /\ "t1" \notin parsing.result.passed_tests

=============================================================================
